---- MODULE Spec2Model ----
(***************************************************************************)
(* localize-router: LocalizeParser (route-tree translation, locale         *)
(* resolution, the two loaders) and LocalizeRouterService (changeLanguage, *)
(* the navigation-start listener).                                         *)
(*                                                                         *)
(* JavaScript values:                                                      *)
(*   - strings are TLA+ strings; split/join work on their characters;      *)
(*   - undefined and null are the two strings below, both falsy;           *)
(*   - a Route object lives in `heap` (objects are written by reference:   *)
(*     a pending translation keeps the object it will write to);           *)
(*   - the Original Route Tree is JSON-copied, so it is a nested value.    *)
(*                                                                         *)
(* The string-lookup provider (ng2-translate's TranslateService) is        *)
(* outside the repository. translate.get(key) is an asynchronous lookup    *)
(* in the language that was active when it was issued; it settles later    *)
(* with the table's entry for the key, or with the key itself on a miss.   *)
(* Every subscriber of one lookup is told in the same step, in the order   *)
(* of subscription (the writer of _getTranslatePromise first, then its     *)
(* toPromise).                                                             *)
(*                                                                         *)
(* The service consumes the parser's promise through `.subscribe(cb)`;     *)
(* cb is modelled as the continuation that runs once that promise is       *)
(* resolved. The service also reads parser.defaultLang and calls           *)
(* parser.initChildRoutes, which the parser does not define: defaultLang   *)
(* is taken to be the first configured locale, and a lazily loaded         *)
(* sub-tree reaches the parser through load.                               *)
(***************************************************************************)
EXTENDS Integers, Sequences, FiniteSets, TLC

\* ------------------------------------------------------------------ bounds
\* calls of translateRoutes in one behaviour
MaxOps == 3
\* calls of load in one behaviour
MaxLoads == 2
\* levels of a route snapshot below the root
MaxDepth == 3
\* navigation-start events that do not come from changeLanguage
MaxExternalNav == 1

\* ------------------------------------------------------- JavaScript values
undefined == "undefined"
null == "null"
falsy(v) == v \in {undefined, null, ""}
truthy(v) == ~falsy(v)
\* a || b
or(a, b) == IF truthy(a) THEN a ELSE b

\* String.prototype.split('/'), from character i on, `cur` being the
\* segment read so far
RECURSIVE splitFrom(_, _, _)
splitFrom(s, i, cur) ==
  IF i > Len(s) THEN <<cur>>
  ELSE IF SubSeq(s, i, i) = "/" THEN <<cur>> \o splitFrom(s, i + 1, "")
  ELSE splitFrom(s, i + 1, cur \o SubSeq(s, i, i))

split(s) == splitFrom(s, 1, "")

\* Array.prototype.join('/')
RECURSIVE join(_)
join(segs) ==
  IF Len(segs) = 0 THEN ""
  ELSE IF Len(segs) = 1 THEN segs[1]
  ELSE segs[1] \o "/" \o join(Tail(segs))

\* Array.prototype.indexOf, 0-based, -1 when absent
indexOf(arr, x) ==
  IF \E i \in 1..Len(arr) : arr[i] = x
  THEN (CHOOSE i \in 1..Len(arr) : arr[i] = x /\ \A j \in 1..(i - 1) : arr[j] # x) - 1
  ELSE -1

\* s.indexOf(':') === 0
startsWithColon(s) == Len(s) > 0 /\ SubSeq(s, 1, 1) = ":"

\* ------------------------------------------------------------ route values
\* a Route as the caller writes it (and as JSON.parse(JSON.stringify(..))
\* copies it): children is a sequence of such records
Route(p, r) == [path |-> p, redirectTo |-> r, hasChildren |-> FALSE, children |-> <<>>]
Parent(p, kids) == [path |-> p, redirectTo |-> undefined, hasChildren |-> TRUE, children |-> kids]

\* route configurations handed to the first load
FirstRoutes ==
  { <<Parent(":id", <<Route("profile", undefined)>>)>>,
    <<Route("old", "about")>> }

\* lazily loaded sub-trees handed to a later load
LazyRoutes == { <<Route("child", undefined)>> }

\* ------------------------------------------------------- lookup provider
\* what translate.get(key) yields per language; a key without entry is a miss
MainTable ==
  [ en |-> ("ROUTES.about" :> "about-us"),
    fr |-> ("ROUTES.about" :> "a-propos") @@ ("ROUTES.users" :> "utilisateurs")
           @@ ("ROUTES.profile" :> "profil") @@ ("ROUTES.old" :> "")
           @@ ("ROUTES.child" :> "enfant") ]

VARIABLES
  locales,            \* parser.locales
  prefix,             \* parser.prefix
  currentLang,        \* parser.currentLang
  routesDefined,      \* whether parser.routes is set
  routes,             \* parser.routes: ids of the root array's elements
  originalRouteNames, \* parser.originalRouteNames
  heap,               \* the Route objects, by id
  table,              \* the lookup provider's content
  translate,          \* the lookup provider's state: [currentLang, defaultLang]
  cachedLang,         \* localStorage[LOCALIZE_LOCAL_STORAGE]
  browserLang,        \* translate.getBrowserLang()
  location,           \* location.pathname
  tasks,              \* pending path/redirectTo translations
  ops,                \* the calls of translateRoutes so far, and load's promises
  snapshot,           \* router.routerState.snapshot, root to leaf
  navQueue,           \* URLs handed to the router, NavigationStart not yet emitted
  routerEvents,       \* what routerEvents.next has emitted, in order
  externalNavs,       \* navigation-start events of other origin so far
  navigating,         \* a navigation has started and has not activated its routes
  settings,           \* LocalizeRouterSettings: [alwaysSetPrefix]
  loader,             \* the LocalizeParser subclass: [kind, dataLoaded]
  loads,              \* the calls of load so far: their fetch and their promise
  requested           \* the keys passed to translate.get so far

vars == << locales, prefix, currentLang, routesDefined, routes, originalRouteNames,
           heap, table, translate, cachedLang, browserLang, location, tasks, ops,
           snapshot, navQueue, routerEvents, externalNavs, navigating, settings,
           loader, loads, requested >>

\* --------------------------------------------------- the lookup provider
\* what translate.get(key) settles with when it was issued under `lang`:
\* the entry, or the key itself when there is none (the miss sentinel)
get(lang, key) ==
  IF lang \in DOMAIN table
  THEN IF key \in DOMAIN table[lang] THEN table[lang][key] ELSE key
  ELSE key

\* localStorage is absent (no window)
NoStorage == "<no localStorage>"

\* _returnIfInLocales, this.locales being locs
returnIfInLocales(locs, value) ==
  IF truthy(value) /\ indexOf(locs, value) # -1 THEN value ELSE null

\* get _cachedLang
getCachedLang(locs) ==
  IF cachedLang = NoStorage THEN undefined ELSE returnIfInLocales(locs, cachedLang)

\* set _cachedLang
setCachedLang(value) ==
  IF cachedLang = NoStorage THEN cachedLang ELSE value

\* _getBrowserLang
getBrowserLang(locs) == returnIfInLocales(locs, browserLang)

\* getLocationLang without its second test (the component before the first
\* slash)
getLocationLangSecondOnly(locs, url) ==
  LET pathSlices == split(or(url, location)) IN
  IF Len(pathSlices) > 1 /\ indexOf(locs, pathSlices[2]) # -1 THEN pathSlices[2]
  ELSE null

\* getLocationLang(url?)
getLocationLang(locs, url) ==
  LET pathSlices == split(or(url, location)) IN
  IF Len(pathSlices) > 1 /\ indexOf(locs, pathSlices[2]) # -1 THEN pathSlices[2]
  ELSE IF Len(pathSlices) > 0 /\ indexOf(locs, pathSlices[1]) # -1 THEN pathSlices[1]
  ELSE null

\* ------------------------------------------------------ translateRoute
\* the indices of pathSegments whose observable is a lookup (part.length)
lookupIndices(pathSegments) ==
  { i \in 1..Len(pathSegments) : Len(pathSegments[i]) > 0 }

\* the keys translateRoute(path) passes to translate.get
lookupKeys(pfx, path) ==
  LET pathSegments == split(path) IN
  { pfx \o pathSegments[i] : i \in lookupIndices(pathSegments) }

\* what forkJoin hands to the subscriber once every segment has settled,
\* after the subscriber's loop over it
translatedSegments(pathSegments, lang) ==
  [ i \in 1..Len(pathSegments) |->
      LET part == pathSegments[i]
          got  == IF Len(part) > 0 THEN get(lang, prefix \o part) ELSE part
      IN IF got = prefix \o part THEN part ELSE got ]

\* observer.next(translatedSegments.join('/'))
translateRouteResult(path, lang) == join(translatedSegments(split(path), lang))

\* ----------------------------------------------------------- the heap
RECURSIVE allocAll(_, _)
\* the caller's Route objects, children before their parent:
\* [heap, ids of the top-level objects]
allocAll(nodes, h) ==
  IF Len(nodes) = 0 THEN [heap |-> h, ids |-> <<>>]
  ELSE LET kids == allocAll(nodes[1].children, h)
           obj  == [ path |-> nodes[1].path, redirectTo |-> nodes[1].redirectTo,
                     hasChildren |-> nodes[1].hasChildren, children |-> kids.ids ]
           h1   == Append(kids.heap, obj)
           rest == allocAll(Tail(nodes), h1)
       IN [heap |-> rest.heap, ids |-> <<Len(h1)>> \o rest.ids]

RECURSIVE deepCopyExtra(_, _)
\* a copy with one node too many at every level
deepCopyExtra(ids, h) ==
  [ i \in 1..Len(ids) |->
      [ path |-> h[ids[i]].path, redirectTo |-> h[ids[i]].redirectTo,
        hasChildren |-> h[ids[i]].hasChildren,
        children |-> IF h[ids[i]].hasChildren THEN deepCopyExtra(h[ids[i]].children, h)
                     ELSE <<>> ] ]
  \o << [path |-> "", redirectTo |-> undefined, hasChildren |-> FALSE, children |-> <<>>] >>

RECURSIVE deepCopy(_, _)
\* JSON.parse(JSON.stringify(routes))
deepCopy(ids, h) ==
  [ i \in 1..Len(ids) |->
      [ path |-> h[ids[i]].path, redirectTo |-> h[ids[i]].redirectTo,
        hasChildren |-> h[ids[i]].hasChildren,
        children |-> IF h[ids[i]].hasChildren THEN deepCopy(h[ids[i]].children, h) ELSE <<>> ] ]

\* a splice that puts the items at the end
spliceBack(arr, items) == arr \o items

\* arr.splice(0, 0, ...items)
spliceFront(arr, items) == items \o arr

\* ------------------------------------------------- _translateRouteTree
\* _getTranslatePromise(target, destination, property): the translation of
\* target[property], to be written to destination[property]. `awaited`:
\* whether its promise is in the array the caller of _translateRouteTree
\* gets back through Promise.all. `order` notes the order in which its
\* lookups settle
translatePromise(op, awaited, target, dest, property, lang) ==
  [ op |-> op, awaited |-> awaited, dest |-> dest, prop |-> property,
    source |-> target[property], lang |-> lang,
    pending |-> lookupIndices(split(target[property])), order |-> <<>>,
    failed |-> FALSE ]

RECURSIVE translateRouteTree(_, _, _, _, _, _)
\* the translations one call of _translateRouteTree starts, its recursive
\* calls included; only the outermost call's promises reach Promise.all
translateRouteTree(ids, originals, h, op, lang, outermost) ==
  UNION { LET route == h[ids[index]]
              original == originals[index] IN
          (IF truthy(route.path)
             THEN {translatePromise(op, outermost, original, ids[index], "path", lang)}
             ELSE {})
          \cup
          (IF truthy(route.redirectTo)
             THEN {translatePromise(op, outermost, original, ids[index], "redirectTo", lang)}
             ELSE {})
          \cup
          (IF route.hasChildren
             THEN translateRouteTree(route.children, original.children, h, op, lang, FALSE)
             ELSE {})
        : index \in 1..Len(ids) }

\* an aggregation that emits the segments in the order they completed:
\* the empty ones at subscription, then the lookups as they settle
forkJoinFirstCome(t) ==
  LET pathSegments == split(t.source)
      done == translatedSegments(pathSegments, t.lang)
      atOnce == SelectSeq([i \in 1..Len(pathSegments) |-> i],
                          LAMBDA i : Len(pathSegments[i]) = 0)
      arrival == atOnce \o t.order
  IN join([ k \in 1..Len(arrival) |-> done[arrival[k]] ])

\* what the subscriber of forkJoin emits for translation t once all its
\* lookups have settled: forkJoin keeps each value at its observable's index
forkJoinResult(t) == translateRouteResult(t.source, t.lang)

\* destination[property] = result, for every translation of ts at once
write(h, ts) ==
  [ id \in 1..Len(h) |->
      [ h[id] EXCEPT
          !.path = IF \E t \in ts : t.dest = id /\ t.prop = "path"
                   THEN forkJoinResult(CHOOSE t \in ts : t.dest = id /\ t.prop = "path")
                   ELSE @,
          !.redirectTo = IF \E t \in ts : t.dest = id /\ t.prop = "redirectTo"
                   THEN forkJoinResult(CHOOSE t \in ts : t.dest = id /\ t.prop = "redirectTo")
                   ELSE @ ] ]

\* the translations whose segments are all empty: forkJoin emits at once
immediate(ts) == { t \in ts : t.pending = {} }

\* Promise.all(promises) of call `op` is resolved
allResolved(op, ts) == ~ \E t \in ts : t.op = op /\ t.awaited

\* ------------------------------------------------------ translateRoutes
\* translateRoutes leaving the active locale and the cached preference to
\* changeLanguage's callback
translateRoutesLateLocale(language, kind, snap, load, h, rts, originals, tr, pfx) ==
  LET op == Len(ops) + 1
      h1 == [h EXCEPT ![rts[2]].path = language]
      started == translateRouteTree(h1[rts[2]].children, originals, h1, op, language, TRUE)
  IN /\ translate' = [tr EXCEPT !.currentLang = language]
     /\ currentLang' = (IF kind = "change" THEN currentLang ELSE language)
     /\ cachedLang' = (IF kind = "change" THEN cachedLang ELSE setCachedLang(language))
     /\ heap' = write(h1, immediate(started))
     /\ tasks' = tasks \cup (started \ immediate(started))
     /\ requested' = requested \cup UNION { lookupKeys(pfx, t.source) : t \in started }
     /\ ops' = Append(ops, [ kind |-> kind, lang |-> language, snap |-> snap,
                             load |-> load, done |-> FALSE, url |-> undefined,
                             alone |-> tasks = {},
                             over |-> { t.op : t \in tasks } ])

\* translateRoutes(language), reached from `kind` ("init", "change",
\* "route"); h, tr, pfx: the heap, the provider's state and this.prefix
\* as the caller leaves them; snap and load: what the caller's continuation keeps. The record of the
\* call also notes whether it began with no translation pending (alone)
\* and the calls whose translations were pending (over), which only the
\* properties read
translateRoutes(language, kind, snap, load, h, rts, originals, tr, pfx) ==
  LET op == Len(ops) + 1
      h1 == [h EXCEPT ![rts[2]].path = language]
      started == translateRouteTree(h1[rts[2]].children, originals, h1, op, language, TRUE)
  IN /\ translate' = [tr EXCEPT !.currentLang = language]
     /\ currentLang' = language
     /\ cachedLang' = setCachedLang(language)
     /\ heap' = write(h1, immediate(started))
     /\ tasks' = tasks \cup (started \ immediate(started))
     /\ requested' = requested \cup UNION { lookupKeys(pfx, t.source) : t \in started }
     /\ ops' = Append(ops, [ kind |-> kind, lang |-> language, snap |-> snap,
                             load |-> load, done |-> FALSE, url |-> undefined,
                             alone |-> tasks = {},
                             over |-> { t.op : t \in tasks } ])

\* -------------------------------------------------------------- init
\* a load call that has not merged its routes into an existing tree
NotMerged == [heap |-> <<>>, originals |-> <<>>, merged |-> FALSE]

\* _cachedLang || _getBrowserLang() || locales[0] with the first locale
\* only
defaultLanguageConfigured(locs) == locs[1]

\* let defaultLanguage = this._cachedLang || this._getBrowserLang() ||
\* this.locales[0]
defaultLanguage(locs) == or(getCachedLang(locs), or(getBrowserLang(locs), locs[1]))

\* init(routes) for the call `load` of load, rs being the caller's routes
\* and lds the calls of load as the caller leaves them. inExecutor: init
\* runs inside load's `new Promise` executor, which turns a throw into a
\* rejection; in the manifest subscriber a throw leaves the promise pending.
\* locs, pfx: this.locales and this.prefix when init runs. The record of
\* a merging call also notes the trees it found (before), which only the
\* properties read
init(rs, load, lds, inExecutor, locs, pfx) ==
  LET made == allocAll(rs, heap) IN
  IF routesDefined
  THEN \* add new routes
       LET originals == spliceFront(originalRouteNames, deepCopy(made.ids, made.heap)) IN
       /\ originalRouteNames' = originals
       /\ UNCHANGED << routes, routesDefined >>
       /\ IF Len(routes) > 1 /\ heap[routes[2]].hasChildren
          THEN /\ translateRoutes(currentLang, "init", <<>>, load,
                    [made.heap EXCEPT ![routes[2]].children = spliceFront(@, made.ids)],
                    routes, originals, translate, pfx)
               /\ loads' = [lds EXCEPT ![load].before =
                               [ heap |-> heap, originals |-> originalRouteNames,
                                 merged |-> TRUE ]]
          ELSE \* this.routes[1].children: TypeError
               /\ heap' = made.heap
               /\ loads' = [lds EXCEPT ![load].promise =
                                         IF inExecutor THEN "rejected" ELSE @]
               /\ UNCHANGED << translate, currentLang, cachedLang, tasks, requested, ops >>
  ELSE \* init first routes
       /\ routesDefined' = TRUE
       /\ originalRouteNames' = deepCopy(made.ids, made.heap)
       /\ IF Len(locs) = 0
          THEN /\ routes' = made.ids
               /\ heap' = made.heap
               /\ loads' = [lds EXCEPT ![load].promise = "resolved"]
               /\ UNCHANGED << translate, currentLang, cachedLang, tasks, requested, ops >>
          ELSE LET locationLang == getLocationLang(locs, undefined)
                   selectedLanguage == or(locationLang, defaultLanguage(locs))
                   tr == [translate EXCEPT !.defaultLang = defaultLanguage(locs)]
                   redirect == Route("", tr.defaultLang)
                   container == [ path |-> undefined, redirectTo |-> undefined,
                                  hasChildren |-> TRUE, children |-> made.ids ]
                   h1 == made.heap \o <<redirect, container>>
                   rts == <<Len(made.heap) + 1, Len(made.heap) + 2>>
               IN /\ routes' = rts
                  /\ translateRoutes(selectedLanguage, "init", <<>>, load, h1, rts,
                                     originalRouteNames', tr, pfx)
                  /\ loads' = lds

\* ------------------------------------------------------------ the loaders
\* the remote manifest, { locales, prefix }
Manifest == [locales |-> <<"en", "fr">>, prefix |-> "ROUTES."]

\* the first load's promise is resolved: the application has started, the
\* service listens to the router
Booted == Len(loads) > 0 /\ loads[1].promise = "resolved"

\* the routes an application hands to load: its own at first, a lazily
\* loaded module's afterwards
LoadArgs == IF Len(loads) = 0 THEN FirstRoutes ELSE LazyRoutes

\* ManualParserLoader.load(routes) / StaticParserLoader.load(routes)
Load(rs) ==
  /\ Len(loads) < MaxLoads
  /\ Len(ops) < MaxOps
  /\ Len(loads) = 0 \/ Booted \/ loader.kind = "static"
  /\ IF loader.kind = "manual" \/ loader.dataLoaded
     THEN /\ init(rs, Len(loads) + 1,
                  Append(loads, [routes |-> rs, fetch |-> "none", promise |-> "pending",
                                 before |-> NotMerged]),
                  TRUE, locales, prefix)
          /\ UNCHANGED << locales, prefix, loader >>
     ELSE \* this.http.get(this.path)
          /\ loads' = Append(loads, [routes |-> rs, fetch |-> "pending", promise |-> "pending",
                                  before |-> NotMerged])
          /\ UNCHANGED << locales, prefix, loader, currentLang, routesDefined, routes,
                          originalRouteNames, heap, translate, cachedLang, tasks, ops,
                          requested >>
  /\ UNCHANGED << navigating, table, browserLang, location, snapshot, navQueue, routerEvents,
                  externalNavs, settings >>

\* the manifest of load call l arrives: the subscriber of http.get
ManifestLoaded(l) ==
  /\ l \in 1..Len(loads)
  /\ loads[l].fetch = "pending"
  /\ Len(ops) < MaxOps
  /\ loader' = [loader EXCEPT !.dataLoaded = TRUE]
  /\ locales' = Manifest.locales
  /\ prefix' = Manifest.prefix
  /\ init(loads[l].routes, l, [loads EXCEPT ![l].fetch = "ok"], FALSE,
          Manifest.locales, Manifest.prefix)
  /\ UNCHANGED << navigating, table, browserLang, location, snapshot, navQueue, routerEvents,
                  externalNavs, settings >>

\* the fetch of load call l fails ("failed"), or res.json() throws on its
\* body ("malformed"): the subscription has no error handler
ManifestFailed(l, how) ==
  /\ l \in 1..Len(loads)
  /\ loads[l].fetch = "pending"
  /\ loads' = [loads EXCEPT ![l].fetch = how]
  /\ UNCHANGED << navigating, locales, prefix, currentLang, routesDefined, routes, originalRouteNames,
                  heap, table, translate, cachedLang, browserLang, location, tasks, ops,
                  snapshot, navQueue, routerEvents, externalNavs, settings, loader,
                  requested >>

\* ------------------------------------------------------------ the lookups
\* the lookup of segment i of translation t settles; with the last one
\* forkJoin emits: the writer stores the result and the promise resolves
Settle(t, i) ==
  /\ t \in tasks
  /\ ~t.failed
  /\ i \in t.pending
  /\ IF t.pending = {i}
     THEN /\ heap' = write(heap, {[t EXCEPT !.order = Append(@, i)]})
          /\ tasks' = tasks \ {t}
     ELSE /\ tasks' = (tasks \ {t}) \cup
                        {[t EXCEPT !.pending = @ \ {i}, !.order = Append(@, i)]}
          /\ heap' = heap
  /\ UNCHANGED << navigating, locales, prefix, currentLang, routesDefined, routes, originalRouteNames,
                  table, translate, cachedLang, browserLang, location, ops, snapshot,
                  navQueue, routerEvents, externalNavs, settings, loader, loads,
                  requested >>

\* a lookup of translation t fails: forkJoin errors, its subscriber has no
\* error handler, so nothing is written and t's promise never settles
FailLookup(t) ==
  /\ t \in tasks
  /\ ~t.failed
  /\ tasks' = (tasks \ {t}) \cup {[t EXCEPT !.failed = TRUE]}
  /\ UNCHANGED << navigating, locales, prefix, currentLang, routesDefined, routes, originalRouteNames,
                  heap, table, translate, cachedLang, browserLang, location, ops,
                  snapshot, navQueue, routerEvents, externalNavs, settings, loader, loads,
                  requested >>

\* ------------------------------------------------------ the router's state
\* the URL segments a wildcard route matched
WildcardUrl == <<"no", "page">>

\* the URL segments the router matched for a route of path `path`: the
\* path's own segments, a value in place of each parameter; for the
\* wildcard, all the segments left
matchedUrl(path) ==
  LET segs == split(path) IN
  IF path = "**" THEN WildcardUrl
  ELSE [ i \in 1..Len(segs) |-> IF startsWithColon(segs[i]) THEN "7" ELSE segs[i] ]

\* one level of an ActivatedRouteSnapshot chain: routeConfig and url
level(id, h) == [config |-> id, url |-> matchedUrl(h[id].path)]

RECURSIVE chainsFrom(_, _, _)
\* the snapshot chains from route id downwards, at most d levels
chainsFrom(id, h, d) ==
  { <<level(id, h)>> } \cup
  ( IF d > 1 /\ h[id].hasChildren
    THEN { <<level(id, h)>> \o c :
             c \in UNION { chainsFrom(h[id].children[k], h, d - 1) :
                             k \in { j \in 1..Len(h[id].children) :
                                       /\ truthy(h[h[id].children[j]].path)
                                       /\ falsy(h[h[id].children[j]].redirectTo) } } }
    ELSE {} )

\* the router ends a navigation (the first one, after the application has
\* started, or one whose NavigationStart was emitted) by activating the
\* routes of `chain`: the locale container, then its descendants
Activate(chain) ==
  /\ Booted
  /\ Len(routes) > 1
  /\ chain \in chainsFrom(routes[2], heap, MaxDepth)
  /\ snapshot = <<>> \/ navigating
  /\ snapshot' = chain
  /\ navigating' = FALSE
  /\ UNCHANGED << locales, prefix, currentLang, routesDefined, routes, originalRouteNames,
                  heap, table, translate, cachedLang, browserLang, location, tasks, ops,
                  navQueue, routerEvents, externalNavs, settings, loader, loads,
                  requested >>

\* ------------------------------------------------- LocalizeRouterService
\* parseSegmentValue(snapshot), snapshot being level k of chain (0: the
\* root, whose routeConfig is null)
parseSegmentValue(chain, k, h) ==
  IF k = 0 THEN ""
  ELSE LET path == h[chain[k].config].path
           url  == chain[k].url
       IN IF path = "**"
          THEN join(SelectSeq(url, truthy))
          ELSE LET subPathSegments == split(path) IN
               join([ i \in 1..Len(subPathSegments) |->
                        IF startsWithColon(subPathSegments[i])
                        THEN (IF i <= Len(url) THEN url[i] ELSE "<TypeError>")
                        ELSE subPathSegments[i] ])

RECURSIVE traverseRouteSnapshot(_, _, _)
\* traverseRouteSnapshot(snapshot), snapshot being level k of chain
traverseRouteSnapshot(chain, k, h) ==
  IF k < Len(chain) /\ truthy(h[chain[k + 1].config].path)
  THEN IF h[chain[k + 1].config].path # "**"
       THEN parseSegmentValue(chain, k, h) \o "/" \o traverseRouteSnapshot(chain, k + 1, h)
       ELSE parseSegmentValue(chain, k + 1, h)
  ELSE parseSegmentValue(chain, k, h)

\* parser.defaultLang: the configured default, the first of the Locale Set
defaultLang == IF Len(locales) > 0 THEN locales[1] ELSE undefined

\* changeLanguage's callback never dropping the default locale's segment
changedUrlKeepDefault(chain, h) ==
  LET url == traverseRouteSnapshot(chain, 0, h) IN
  IF settings.alwaysSetPrefix THEN url
  ELSE LET urlSegments == split(url)
           languageSegmentIndex == indexOf(urlSegments, currentLang)
       IN IF currentLang # defaultLang /\ languageSegmentIndex = -1
          THEN LET injectionIndex == IF urlSegments[1] = "" THEN 1 ELSE 0 IN
               join(SubSeq(urlSegments, 1, injectionIndex) \o <<currentLang>>
                    \o SubSeq(urlSegments, injectionIndex + 1, Len(urlSegments)))
          ELSE join(urlSegments)

\* the URL changeLanguage's callback hands to the router
changedUrl(chain, h) ==
  LET url == traverseRouteSnapshot(chain, 0, h) IN
  IF settings.alwaysSetPrefix THEN url
  ELSE LET urlSegments == split(url)
           languageSegmentIndex == indexOf(urlSegments, currentLang)
       IN IF currentLang = defaultLang
          THEN IF languageSegmentIndex = 0
                  \/ (languageSegmentIndex = 1 /\ urlSegments[1] = "")
               THEN join(SubSeq(urlSegments, 1, languageSegmentIndex)
                         \o SubSeq(urlSegments, languageSegmentIndex + 2, Len(urlSegments)))
               ELSE join(urlSegments)
          ELSE IF languageSegmentIndex = -1
               THEN LET injectionIndex == IF urlSegments[1] = "" THEN 1 ELSE 0 IN
                    join(SubSeq(urlSegments, 1, injectionIndex) \o <<currentLang>>
                         \o SubSeq(urlSegments, injectionIndex + 1, Len(urlSegments)))
               ELSE join(urlSegments)

\* changeLanguage(lang)
ChangeLanguage(lang) ==
  /\ Booted
  /\ Len(routes) > 1
  /\ Len(snapshot) > 0
  /\ Len(ops) < MaxOps
  /\ lang # currentLang
  /\ translateRoutes(lang, "change", snapshot, 0, heap, routes, originalRouteNames,
                     translate, prefix)
  /\ UNCHANGED << navigating, locales, prefix, routesDefined, routes, originalRouteNames, table,
                  browserLang, location, snapshot, navQueue, routerEvents, externalNavs,
                  settings, loader, loads >>

\* the handler _routeChanged() returns, on a NavigationStart event for url
routeChanged(url) ==
  LET lang == getLocationLang(locales, url) IN
  IF truthy(lang) /\ lang # currentLang
  THEN /\ Len(ops) < MaxOps
       /\ translateRoutes(lang, "route", <<>>, 0, heap, routes, originalRouteNames,
                          translate, prefix)
  ELSE UNCHANGED << translate, currentLang, cachedLang, heap, tasks, requested, ops >>

\* the router emits NavigationStart for the URL changeLanguage handed to it
NavigationStartQueued ==
  /\ Len(navQueue) > 0
  /\ routeChanged(Head(navQueue))
  /\ navQueue' = Tail(navQueue)
  /\ navigating' = TRUE
  /\ UNCHANGED << locales, prefix, routesDefined, routes, originalRouteNames, table,
                  browserLang, location, snapshot, routerEvents, externalNavs, settings,
                  loader, loads >>

\* URLs the user navigates to
ExternalUrls == { "/fr/about", "/about" }

\* the router emits NavigationStart for a URL of another origin (a link)
NavigationStartExternal(url) ==
  /\ Booted
  /\ Len(routes) > 1
  /\ externalNavs < MaxExternalNav
  /\ url \in ExternalUrls
  /\ routeChanged(url)
  /\ externalNavs' = externalNavs + 1
  /\ navigating' = TRUE
  /\ UNCHANGED << locales, prefix, routesDefined, routes, originalRouteNames, table,
                  browserLang, location, snapshot, navQueue, routerEvents, settings,
                  loader, loads >>

\* Promise.all of call op is resolved and its continuation runs:
\* load's `.then(resolve)`, changeLanguage's callback, _routeChanged's callback
Continue(op) ==
  /\ op \in 1..Len(ops)
  /\ ~ops[op].done
  /\ allResolved(op, tasks)
  /\ ops' = [ops EXCEPT ![op].done = TRUE,
                        ![op].url = IF ops[op].kind = "change"
                                    THEN changedUrl(ops[op].snap, heap) ELSE @]
  /\ loads' = IF ops[op].kind = "init"
              THEN [loads EXCEPT ![ops[op].load].promise = "resolved"] ELSE loads
  /\ navQueue' = IF ops[op].kind = "change"
                 THEN Append(navQueue, changedUrl(ops[op].snap, heap)) ELSE navQueue
  /\ routerEvents' = IF ops[op].kind = "route"
                     THEN Append(routerEvents, [lang |-> ops[op].lang, op |-> op])
                     ELSE routerEvents
  /\ UNCHANGED << navigating, locales, prefix, currentLang, routesDefined, routes, originalRouteNames,
                  heap, table, translate, cachedLang, browserLang, location, tasks,
                  snapshot, externalNavs, settings, loader, requested >>

\* ------------------------------------------------------- specifications
Init ==
  /\ locales = <<"en", "fr">>
  /\ prefix = "ROUTES."
  /\ currentLang = undefined
  /\ routesDefined = FALSE
  /\ routes = <<>>
  /\ originalRouteNames = <<>>
  /\ heap = <<>>
  /\ table = MainTable
  /\ translate = [currentLang |-> undefined, defaultLang |-> undefined]
  /\ cachedLang = null
  /\ browserLang = "en"
  /\ location = "/"
  /\ tasks = {}
  /\ ops = <<>>
  /\ snapshot = <<>>
  /\ navQueue = <<>>
  /\ routerEvents = <<>>
  /\ externalNavs = 0
  /\ navigating = FALSE
  /\ settings = [alwaysSetPrefix |-> TRUE]
  /\ loader = [kind |-> "manual", dataLoaded |-> FALSE]
  /\ loads = <<>>
  /\ requested = {}

\* the language arguments of changeLanguage
LangArgs == {"en", "fr", "xx"}

Next ==
  \/ \E rs \in LoadArgs : Load(rs)
  \/ \E t \in tasks : \E i \in t.pending : Settle(t, i)
  \/ \E op \in 1..Len(ops) : Continue(op)
  \/ \E chain \in (IF Len(routes) > 1 THEN chainsFrom(routes[2], heap, MaxDepth) ELSE {}) :
       Activate(chain)
  \/ \E lang \in LangArgs : ChangeLanguage(lang)
  \/ NavigationStartQueued
  \/ \E url \in ExternalUrls : NavigationStartExternal(url)

Spec == Init /\ [][Next]_vars

\* -------------------------------------------- translateRoute on one path
\* the paths translateRoute is applied to
TranslatePaths == { "about", "user/:id", ":id", "a/b/c", "/about", "" }

\* lookup-provider contents
Tables ==
  { MainTable,
    [ en |-> ("ROUTES.:id" :> "ident") @@ ("ROUTES.user" :> "member"),
      fr |-> ("ROUTES.:id" :> "identifiant") @@ ("ROUTES.user" :> "utilisateur")
             @@ ("ROUTES.a" :> "X") @@ ("ROUTES.b" :> "Y") @@ ("ROUTES.c" :> "Z") ],
    [ en |-> [k \in {} |-> ""], fr |-> [k \in {} |-> ""] ] }

InitTranslate ==
  /\ locales = <<"en", "fr">>
  /\ prefix = "ROUTES."
  /\ currentLang \in {"en", "fr"}
  /\ routesDefined = FALSE
  /\ routes = <<>>
  /\ \E path \in TranslatePaths :
       /\ originalRouteNames = <<Route(path, undefined)>>
       /\ heap = <<Route(path, undefined)>>
  /\ table \in Tables
  /\ translate = [currentLang |-> currentLang, defaultLang |-> "en"]
  /\ cachedLang = null
  /\ browserLang = "en"
  /\ location = "/"
  /\ tasks = {}
  /\ ops = <<>>
  /\ snapshot = <<>>
  /\ navQueue = <<>>
  /\ routerEvents = <<>>
  /\ externalNavs = 0
  /\ navigating = FALSE
  /\ settings = [alwaysSetPrefix |-> TRUE]
  /\ loader = [kind |-> "manual", dataLoaded |-> FALSE]
  /\ loads = <<>>
  /\ requested = {}

\* _getTranslatePromise(original, route, 'path') on the one route: its
\* translateRoute(path) under the provider's active language
TranslateOne ==
  /\ requested = {}
  /\ tasks = {}
  /\ ops = <<>>
  /\ LET started == { translatePromise(1, TRUE, originalRouteNames[1], 1, "path",
                                       translate.currentLang) }
     IN /\ heap' = write(heap, immediate(started))
        /\ tasks' = started \ immediate(started)
        /\ requested' = lookupKeys(prefix, originalRouteNames[1].path)
        /\ ops' = <<[ kind |-> "translateRoute", lang |-> translate.currentLang,
                      snap |-> <<>>, load |-> 0, done |-> FALSE, url |-> undefined,
                      alone |-> TRUE, over |-> {} ]>>
  /\ UNCHANGED << locales, prefix, currentLang, routesDefined, routes, originalRouteNames,
                  table, translate, cachedLang, browserLang, location, snapshot, navQueue,
                  routerEvents, externalNavs, navigating, settings, loader, loads >>

NextTranslate ==
  \/ TranslateOne
  \/ \E t \in tasks : \E i \in t.pending : Settle(t, i)

SpecTranslate == InitTranslate /\ [][NextTranslate]_vars

\* ------------------------------------------------ the first load's locale
\* configured Locale Sets
LocaleSets == { <<"en", "fr">>, <<"fr", "en">>, <<"de">> }

\* location.pathname when the application starts
StartUrls == { "/", "/fr/about", "fr/about", "/about/fr", "/xx/en", "/en/fr" }

\* what localStorage holds, if there is one
CachedValues == { null, "", "fr", "xx", NoStorage }

\* what the client reports
BrowserValues == { "en", "de", "xx", undefined }

InitResolve ==
  /\ locales \in LocaleSets
  /\ prefix = "ROUTES."
  /\ currentLang = undefined
  /\ routesDefined = FALSE
  /\ routes = <<>>
  /\ originalRouteNames = <<>>
  /\ heap = <<>>
  /\ table = MainTable
  /\ translate = [currentLang |-> undefined, defaultLang |-> undefined]
  /\ cachedLang \in CachedValues
  /\ browserLang \in BrowserValues
  /\ location \in StartUrls
  /\ tasks = {}
  /\ ops = <<>>
  /\ snapshot = <<>>
  /\ navQueue = <<>>
  /\ routerEvents = <<>>
  /\ externalNavs = 0
  /\ navigating = FALSE
  /\ settings = [alwaysSetPrefix |-> TRUE]
  /\ loader = [kind |-> "manual", dataLoaded |-> FALSE]
  /\ loads = <<>>
  /\ requested = {}

NextResolve ==
  \/ \E rs \in LoadArgs : Load(rs)
  \/ \E t \in tasks : \E i \in t.pending : Settle(t, i)
  \/ \E op \in 1..Len(ops) : Continue(op)

SpecResolve == InitResolve /\ [][NextResolve]_vars

\* ------------------------------------------- changeLanguage and the prefix
\* route configurations with a wildcard route
PrefixRoutes ==
  { <<Route("about", undefined), Route("**", undefined)>>,
    <<Parent(":id", <<Route("**", undefined)>>)>> }

\* a provider without entries for the default locale
PrefixTable ==
  [ en |-> [k \in {} |-> ""],
    fr |-> ("ROUTES.about" :> "a-propos") ]

InitPrefix ==
  /\ locales = <<"en", "fr">>
  /\ prefix = "ROUTES."
  /\ currentLang = undefined
  /\ routesDefined = FALSE
  /\ routes = <<>>
  /\ originalRouteNames = <<>>
  /\ heap = <<>>
  /\ table = PrefixTable
  /\ translate = [currentLang |-> undefined, defaultLang |-> undefined]
  /\ cachedLang = null
  /\ browserLang = "en"
  /\ location \in {"/", "/fr/a-propos"}
  /\ tasks = {}
  /\ ops = <<>>
  /\ snapshot = <<>>
  /\ navQueue = <<>>
  /\ routerEvents = <<>>
  /\ externalNavs = 0
  /\ navigating = FALSE
  /\ settings \in { [alwaysSetPrefix |-> b] : b \in BOOLEAN }
  /\ loader = [kind |-> "manual", dataLoaded |-> FALSE]
  /\ loads = <<>>
  /\ requested = {}

NextPrefix ==
  \/ \E rs \in PrefixRoutes : Len(loads) = 0 /\ Load(rs)
  \/ \E t \in tasks : \E i \in t.pending : Settle(t, i)
  \/ \E op \in 1..Len(ops) : Continue(op)
  \/ \E chain \in (IF Len(routes) > 1 THEN chainsFrom(routes[2], heap, MaxDepth) ELSE {}) :
       Activate(chain)
  \/ \E lang \in {"en", "fr"} : ChangeLanguage(lang)
  \/ NavigationStartQueued

SpecPrefix == InitPrefix /\ [][NextPrefix]_vars

\* ---------------------------------------------------- load and its failures
InitLoad ==
  /\ loader \in { [kind |-> "manual", dataLoaded |-> FALSE],
                  [kind |-> "static", dataLoaded |-> FALSE] }
  /\ locales \in (IF loader.kind = "manual" THEN {<<"en", "fr">>, <<>>} ELSE {<<>>})
  /\ prefix = IF loader.kind = "manual" THEN "ROUTES." ELSE undefined
  /\ currentLang = undefined
  /\ routesDefined = FALSE
  /\ routes = <<>>
  /\ originalRouteNames = <<>>
  /\ heap = <<>>
  /\ table = MainTable
  /\ translate = [currentLang |-> undefined, defaultLang |-> undefined]
  /\ cachedLang = null
  /\ browserLang = "en"
  /\ location = "/"
  /\ tasks = {}
  /\ ops = <<>>
  /\ snapshot = <<>>
  /\ navQueue = <<>>
  /\ routerEvents = <<>>
  /\ externalNavs = 0
  /\ navigating = FALSE
  /\ settings = [alwaysSetPrefix |-> TRUE]
  /\ loads = <<>>
  /\ requested = {}

NextLoad ==
  \/ \E rs \in LoadArgs : Load(rs)
  \/ \E l \in 1..Len(loads) : ManifestLoaded(l)
  \/ \E l \in 1..Len(loads) : \E how \in {"failed", "malformed"} : ManifestFailed(l, how)
  \/ \E t \in tasks : \E i \in t.pending : Settle(t, i)
  \/ \E t \in tasks : FailLookup(t)
  \/ \E op \in 1..Len(ops) : Continue(op)

SpecLoad == InitLoad /\ [][NextLoad]_vars

\* ------------------------------------------------------------ properties
RECURSIVE translatedTo(_, _, _, _)
\* every path and redirectTo of the routes ids, at every depth, holds the
\* translation to lang of its value in the Original Route Tree
translatedTo(ids, originals, h, lang) ==
  /\ Len(originals) >= Len(ids)
  /\ \A i \in 1..Len(ids) :
       /\ truthy(originals[i].path) =>
            h[ids[i]].path = translateRouteResult(originals[i].path, lang)
       /\ truthy(originals[i].redirectTo) =>
            h[ids[i]].redirectTo = translateRouteResult(originals[i].redirectTo, lang)
       /\ h[ids[i]].hasChildren =>
            translatedTo(h[ids[i]].children, originals[i].children, h, lang)

\* the live tree below the locale container is translated to lang
liveTranslatedTo(lang) ==
  translatedTo(heap[routes[2]].children, originalRouteNames, heap, lang)

RECURSIVE expectedHeap(_, _, _, _)
\* h with every path under ids replaced by the translation to lang of its
\* original
expectedHeap(ids, originals, h, lang) ==
  IF Len(ids) = 0 THEN h
  ELSE LET id == ids[1]
           h1 == [h EXCEPT ![id].path = IF truthy(originals[1].path)
                                        THEN translateRouteResult(originals[1].path, lang)
                                        ELSE @]
           h2 == IF h[id].hasChildren
                 THEN expectedHeap(h[id].children, originals[1].children, h1, lang)
                 ELSE h1
       IN expectedHeap(Tail(ids), Tail(originals), h2, lang)

\* nothing is in flight: no lookup, no continuation, no navigation
Quiescent ==
  /\ tasks = {}
  /\ navQueue = <<>>
  /\ \A op \in 1..Len(ops) : ops[op].done

\* C1: the promise of a tree translation is resolved only when every path
\* and redirectTo translation that call started, nested children included,
\* has settled and been written.
C1_ResolvedOnlyWhenWholeTreeSettled ==
  \A op \in 1..Len(ops) :
    allResolved(op, tasks) => ~ \E t \in tasks : t.op = op

\* C2: whenever routerEvents.next(lang) is emitted, every live path and
\* redirectTo at every depth holds its value for lang.
C2_NotifiedOnlyWhenTranslated ==
  [][ routerEvents' # routerEvents =>
        translatedTo(heap'[routes'[2]].children, originalRouteNames', heap',
                     routerEvents'[Len(routerEvents')].lang) ]_vars

\* C3: the URL changeLanguage(newLocale) hands to the router is the one
\* traverseRouteSnapshot yields when every matched level of the snapshot
\* holds its path for newLocale.
C3_UrlBuiltFromNewLocale ==
  \A op \in 1..Len(ops) :
    (ops[op].kind = "change" /\ ops[op].done /\ settings.alwaysSetPrefix) =>
      ops[op].url =
        traverseRouteSnapshot(ops[op].snap, 0,
          expectedHeap(heap[routes[2]].children, originalRouteNames,
                       [heap EXCEPT ![routes[2]].path = ops[op].lang], ops[op].lang))

\* C4: the active locale is unset or a member of the Locale Set.
C4_ActiveLocaleInLocaleSet ==
  currentLang = undefined \/ indexOf(locales, currentLang) # -1

\* C5: once nothing is in flight any more, every changeLanguage(newLocale)
\* with newLocale in the Locale Set has been followed by a notification
\* carrying newLocale.
C5_ChangeIsNotified ==
  Quiescent =>
    \A op \in 1..Len(ops) :
      (ops[op].kind = "change" /\ indexOf(locales, ops[op].lang) # -1) =>
        \E e \in 1..Len(routerEvents) :
          routerEvents[e].lang = ops[op].lang /\ routerEvents[e].op > op

C7_NoDrift ==
  (Len(ops) > 0 /\ tasks = {} /\ \A op \in 1..Len(ops) : ops[op].alone) =>
    liveTranslatedTo(ops[Len(ops)].lang)

\* the segments of path that begin with the placeholder marker
paramIndices(path) ==
  { i \in 1..Len(split(path)) : startsWithColon(split(path)[i]) }

\* C8: no segment that begins with ':' is passed to the lookup provider,
\* and each appears verbatim at its position in the translated path.
C8_ParameterSegmentsPassThrough ==
  LET path == originalRouteNames[1].path
      segs == split(path) IN
  /\ \A i \in paramIndices(path) : (prefix \o segs[i]) \notin requested
  /\ (Len(ops) > 0 /\ tasks = {}) =>
       /\ Len(split(heap[1].path)) = Len(segs)
       /\ \A i \in paramIndices(path) : split(heap[1].path)[i] = segs[i]

\* the first two components of location.pathname that are locales
urlLocales ==
  { split(location)[i] : i \in { j \in 1..Len(split(location)) : j <= 2 } }
    \cap { locales[i] : i \in 1..Len(locales) }

loadFailed(l) ==
  \/ loads[l].fetch \in {"failed", "malformed"}
  \/ \E t \in tasks : t.failed /\ ops[t.op].kind = "init" /\ ops[t.op].load = l

\* nothing more can happen to load call l: its fetch has ended, each of
\* its translations left has failed, and its continuation has run or waits
\* for a failed translation
loadAtRest(l) ==
  /\ loads[l].fetch # "pending"
  /\ \A t \in tasks :
       (ops[t.op].kind = "init" /\ ops[t.op].load = l) => t.failed
  /\ \A op \in 1..Len(ops) :
       (ops[op].kind = "init" /\ ops[op].load = l) =>
         (ops[op].done \/ ~allResolved(op, tasks))

\* C10: when a load call has failed (its manifest fetch, the parsing of the
\* manifest, or one of its string lookups) and nothing more can happen to
\* it, its promise is rejected.
C10_FailedLoadIsRejected ==
  \A l \in 1..Len(loads) :
    (loadFailed(l) /\ loadAtRest(l)) => loads[l].promise = "rejected"

\* the first non-empty segment of url, undefined when there is none
firstSegment(url) ==
  LET segs == SelectSeq(split(url), LAMBDA x : x # "") IN
  IF Len(segs) > 0 THEN segs[1] ELSE undefined

\* C11: with 'always prefix' enabled, when the callback of
\* changeLanguage(newLocale) runs with newLocale still the active locale,
\* the URL it hands to the router has newLocale as first non-empty segment
\* and is the rendered segments of all snapshot levels joined root to leaf,
\* a wildcard child included.
C11_PrefixedUrlKeepsLocale ==
  [][ \A op \in 1..Len(ops) :
        ( /\ ops[op].kind = "change"
          /\ ~ops[op].done
          /\ ops'[op].done
          /\ settings.alwaysSetPrefix
          /\ currentLang = ops[op].lang ) =>
          LET chain == ops[op].snap IN
          /\ firstSegment(ops'[op].url) = ops[op].lang
          /\ ops'[op].url =
               "/" \o join([ k \in 1..Len(chain) |-> parseSegmentValue(chain, k, heap) ]) ]_vars

\* url without its locale segment lang at position 0, or at position 1
\* after an empty segment, when lang is the default; with lang put in after
\* a leading empty segment when lang is not the default and no segment of
\* url is lang; url otherwise
prefixPolicy(url, lang, default) ==
  LET segs == split(url) IN
  IF lang = default
  THEN IF segs[1] = lang THEN join(Tail(segs))
       ELSE IF Len(segs) > 1 /\ segs[1] = "" /\ segs[2] = lang
            THEN join(<<"">> \o SubSeq(segs, 3, Len(segs)))
            ELSE url
  ELSE IF \A i \in 1..Len(segs) : segs[i] # lang
       THEN IF segs[1] = "" THEN join(<<"", lang>> \o Tail(segs))
            ELSE join(<<lang>> \o segs)
       ELSE url

\* C12: with 'always prefix' disabled, when the callback of
\* changeLanguage(newLocale) runs with newLocale still the active locale,
\* the URL it hands to the router is the reconstructed URL without its
\* leading locale segment if newLocale is the first locale of the Locale
\* Set, and with newLocale put in front if it is not and no segment of the
\* reconstructed URL is newLocale.
C12_UnprefixedDefaultLocale ==
  [][ \A op \in 1..Len(ops) :
        ( /\ ops[op].kind = "change"
          /\ ~ops[op].done
          /\ ops'[op].done
          /\ ~settings.alwaysSetPrefix
          /\ currentLang = ops[op].lang ) =>
          ops'[op].url =
            prefixPolicy(traverseRouteSnapshot(ops[op].snap, 0, heap),
                         ops[op].lang, locales[1]) ]_vars

\* changeLanguage('en') from '/fr/a-propos' with 'always prefix' disabled
\* has navigated to '/about'
C12_Witness ==
  /\ ~settings.alwaysSetPrefix
  /\ \E op \in 1..Len(ops) :
       /\ ops[op].kind = "change"
       /\ ops[op].done
       /\ ops[op].lang = "en"
       /\ Len(ops[op].snap) = 2
       /\ ops[op].snap[1].url = <<"fr">>
       /\ ops[op].snap[2].url = <<"a-propos">>
       /\ ops[op].url = "/about"

C14_EmptyLocaleSetLoads ==
  (loader.kind = "manual" /\ Len(locales) = 0 /\ Len(loads) > 0) =>
    /\ \A l \in 1..Len(loads) : loads[l].promise = "resolved"
    /\ requested = {}
    /\ Len(routes) = Len(loads[1].routes)
    /\ \A k \in 1..Len(routes) :
         /\ heap[routes[k]].path = loads[1].routes[k].path
         /\ heap[routes[k]].redirectTo = loads[1].routes[k].redirectTo

\* the translation (or fallback) of segment part under lang
segmentTranslation(part, lang) ==
  IF part = "" THEN ""
  ELSE IF get(lang, prefix \o part) = prefix \o part THEN part
       ELSE get(lang, prefix \o part)

\* C15: when the last lookup of a path's translation settles, whatever the
\* order in which they settled, the value written has as many segments as
\* the source path and its i-th segment is the translation (or fallback)
\* of the source's i-th segment (the provider's entries holding no '/').
C15_SegmentOrderKept ==
  [][ \A t \in tasks :
        (t \notin tasks' /\ tasks' \subseteq tasks) =>
          LET segs == split(t.source)
              out  == split(heap'[t.dest][t.prop])
          IN /\ Len(out) = Len(segs)
             /\ \A i \in 1..Len(segs) : out[i] = segmentTranslation(segs[i], t.lang) ]_vars

\* of 'a/b/c', c has settled before a, and b has not settled yet
C15_Witness ==
  \E t \in tasks :
    /\ t.source = "a/b/c"
    /\ t.order = <<3, 1>>
    /\ t.pending = {2}
    /\ segmentTranslation("a", t.lang) = "X"
    /\ segmentTranslation("c", t.lang) = "Z"

RECURSIVE sameShape(_, _, _)
\* the routes ids and the values originals have as many nodes, and a node
\* has children exactly when its counterpart has, these of the same shape
sameShape(ids, originals, h) ==
  /\ Len(ids) = Len(originals)
  /\ \A i \in 1..Len(ids) :
       /\ h[ids[i]].hasChildren = originals[i].hasChildren
       /\ sameShape(h[ids[i]].children, originals[i].children, h)

\* C16: once the first load has built the locale container, its children
\* and the Original Route Tree have the same shape.
C16_SameShape ==
  Len(routes) > 1 =>
    sameShape(heap[routes[2]].children, originalRouteNames, heap)

\* a lazy sub-tree was merged next to a route with children, and a locale
\* change has run to its end
C16_Witness ==
  /\ Len(routes) > 1
  /\ Len(loads) > 1
  /\ loads[Len(loads)].before.merged
  /\ Len(originalRouteNames) = 2
  /\ originalRouteNames[2].hasChildren
  /\ \E op \in 1..Len(ops) : ops[op].kind = "change" /\ ops[op].done
  /\ tasks = {}

\* C17 as stated: the default-redirect node redirects to the first locale
\* of the Locale Set.
C17_RedirectToConfiguredDefault ==
  Len(routes) > 1 => heap[routes[1]].redirectTo = locales[1]

\* C17 as amended: the default-redirect node the first load creates
\* redirects to the cached locale the load found if that is in the Locale
\* Set, otherwise to the client locale if that is in the Locale Set,
\* otherwise to the first locale of the Locale Set, whatever the URL is.
C17_RedirectToPreferredLocale ==
  [][ (~routesDefined /\ routesDefined' /\ Len(locales') > 0) =>
        LET inSet(x) == \E i \in 1..Len(locales') : locales'[i] = x
            cached == IF cachedLang = NoStorage THEN "" ELSE cachedLang
        IN /\ Len(routes') = 2
           /\ heap'[routes'[1]].path = ""
           /\ heap'[routes'[1]].redirectTo =
                IF cached # "" /\ inSet(cached) THEN cached
                ELSE IF inSet(browserLang) THEN browserLang
                ELSE locales'[1] ]_vars

\* with Locale Set <<en, fr>>, client locale 'en' and URL '/', the first
\* load found 'fr' cached: the default-redirect node redirects to 'fr'
C17_Witness ==
  /\ Len(routes) > 1
  /\ locales = <<"en", "fr">>
  /\ browserLang = "en"
  /\ location = "/"
  /\ heap[routes[1]].redirectTo = "fr"
  /\ currentLang = "fr"

\* C18: once the first load has run with a non-empty Locale Set, the root
\* has two elements, the default-redirect node and the locale container,
\* and the container's path is the active locale.
C18_RootIsRedirectAndContainer ==
  (routesDefined /\ Len(locales) > 0) =>
    /\ Len(routes) = 2
    /\ heap[routes[1]].path = ""
    /\ truthy(heap[routes[1]].redirectTo)
    /\ ~heap[routes[1]].hasChildren
    /\ heap[routes[2]].hasChildren
    /\ heap[routes[2]].path = currentLang

\* a locale change to 'fr' is under way, its translations still pending;
\* the container's path already is 'fr'
C18_Witness ==
  /\ routesDefined
  /\ Len(ops) > 1
  /\ ops[Len(ops)].kind = "change"
  /\ ops[Len(ops)].lang = "fr"
  /\ \E t \in tasks : t.op = Len(ops)
  /\ currentLang = "fr"
  /\ heap[routes[2]].path = "fr"

\* C19: when changeLanguage(B) was called while translations of the
\* preceding changeLanguage(A) were pending, and every translation has
\* settled, the active locale and the container's path are B and every
\* live path and redirectTo holds its translation for B.
C19_LastChangeWins ==
  ( /\ Len(ops) > 1
    /\ ops[Len(ops)].kind = "change"
    /\ ops[Len(ops) - 1].kind = "change"
    /\ (Len(ops) - 1) \in ops[Len(ops)].over
    /\ tasks = {} ) =>
    /\ currentLang = ops[Len(ops)].lang
    /\ heap[routes[2]].path = ops[Len(ops)].lang
    /\ liveTranslatedTo(ops[Len(ops)].lang)

\* C20: with the remote-manifest loader, at most one load call has issued
\* a fetch of the manifest.
C20_ManifestFetchedOnce ==
  loader.kind = "static" =>
    Cardinality({ l \in 1..Len(loads) : loads[l].fetch # "none" }) <= 1

====
